---- MODULE Spec2Model ----
(***************************************************************************)
(* A model of material-ui-popup-state (src/index.js): the PopupState       *)
(* component, whose only state is state.anchorEl, and the bind* functions  *)
(* that turn the props it injects into its render function into props of   *)
(* trigger and popup components.                                           *)
(*                                                                         *)
(* JavaScript values are records [type, id, target, this]:                 *)
(*   type    the runtime type of the value,                                *)
(*   id      its identity (objects, functions) or literal (primitives),    *)
(*   target  its `target` property: "absent" when it has none, "null"      *)
(*           when the property holds null, else the id of an element,      *)
(*   this    for a bound method, the component instance it is bound to.    *)
(***************************************************************************)
EXTENDS Integers, Sequences, FiniteSets, TLC

VARIABLES
  anchorEl,               \* this.state.anchorEl of every PopupState instance
  pending,                \* partial state queued by setState, not yet applied
  batching,               \* React is inside an event handler (updates batched)
  eventOrAnchorElWarned,  \* the module-level flag
  consoleErrors,          \* number of console.error calls so far
  rendered,               \* the props last handed to props.children
  rerendered,             \* the instances whose render ran in the last step
  call,                   \* the operation that made the last step
  raised,                 \* the exception the last operation ended with
  popupState,             \* the argument handed to the bind* functions
  bound                   \* the results of the bind* functions applied so far

vars == <<anchorEl, pending, batching, eventOrAnchorElWarned, consoleErrors,
          rendered, rerendered, call, raised, popupState, bound>>

ctlVars == <<anchorEl, pending, batching, eventOrAnchorElWarned, consoleErrors,
             rendered, rerendered, call, raised>>

bindVars == <<popupState, bound>>

-----------------------------------------------------------------------------
(* JavaScript values *)

JSValue(t, i, tg, th) == [type |-> t, id |-> i, target |-> tg, this |-> th]

Null == JSValue("null", "null", "absent", "none")

Undefined == JSValue("undefined", "undefined", "absent", "none")

Zero == JSValue("number", "0", "absent", "none")

True == JSValue("boolean", "true", "absent", "none")

False == JSValue("boolean", "false", "absent", "none")

Str(s) == JSValue("string", s, "absent", "none")

\* an HTMLElement: an object without a `target` property
Element(e) == JSValue("object", e, "absent", "none")

\* an Event: an object whose `target` property is tg
Event(n, tg) == JSValue("object", n, tg, "none")

\* a method bound to the instance self (a class property arrow function)
Method(name, self) == JSValue("function", name, "absent", self)

\* ToBoolean of the values above
ToBoolean(v) ==
  \/ v.type \in {"object", "function"}
  \/ v.type = "boolean" /\ v.id = "true"
  \/ v.type = "string" /\ v.id # ""

\* Boolean(v)
Boolean(v) == IF ToBoolean(v) THEN True ELSE False

\* reading a property of null or undefined throws a TypeError
IsNullish(v) == v.type \in {"null", "undefined"}

\* v.target, for a v that is not nullish
GetTarget(v) ==
  CASE v.target = "absent" -> Undefined
    [] v.target = "null" -> Null
    [] OTHER -> Element(v.target)

-----------------------------------------------------------------------------
(* The inputs *)

\* the console lines counted
MaxConsoleErrors == 3

Instances == {"menu", "tip"}

ElementIds == {"E1", "E2"}

Elements == {Element(e) : e \in ElementIds}

\* the events React hands to a handler: on an element, without a target, with
\* a null target
Events == {Event("click", "E1"), Event("custom", "absent"), Event("submit", "null")}

\* what a caller may pass as eventOrAnchorEl: nothing, null, a falsy
\* primitive, an element, an event
AnchorSources == {Undefined, Null, Zero} \cup Elements \cup Events

\* this.props of the two instances
Props(self) ==
  IF self = "menu"
    THEN [popupId |-> Str("menu"), variant |-> Str("popover")]
    ELSE [popupId |-> Undefined, variant |-> Str("popper")]

-----------------------------------------------------------------------------
(* PopupState *)

\* render() with isOpen computed as anchorEl !== null
renderNonNull(self, el) ==
  [open |-> Method("handleOpen", self),
   close |-> Method("handleClose", self),
   toggle |-> Method("handleToggle", self),
   setOpen |-> Method("handleSetOpen", self),
   isOpen |-> IF el # Null THEN True ELSE False,
   anchorEl |-> el,
   popupId |-> Props(self).popupId,
   variant |-> Props(self).variant]

\* render(): the props handed to props.children when state.anchorEl is el
render(self, el) ==
  [open |-> Method("handleOpen", self),
   close |-> Method("handleClose", self),
   toggle |-> Method("handleToggle", self),
   setOpen |-> Method("handleSetOpen", self),
   isOpen |-> Boolean(el),
   anchorEl |-> el,
   popupId |-> Props(self).popupId,
   variant |-> Props(self).variant]

\* setState on a state that all the instances share
setStateShared(self, el) ==
  IF batching
    THEN /\ pending' = [other \in Instances |-> <<el>>]
         /\ rerendered' = {}
         /\ UNCHANGED <<anchorEl, rendered>>
    ELSE /\ anchorEl' = [other \in Instances |-> el]
         /\ rendered' = [other \in Instances |-> render(other, el)]
         /\ rerendered' = Instances
         /\ UNCHANGED pending

\* this.setState({anchorEl: el}): inside a React event handler the update is
\* queued (a later one overwrites the key) and this.state is left alone until
\* the handler returns; outside one it is applied and rendered at once
setState(self, el) ==
  IF batching
    THEN /\ pending' = [pending EXCEPT ![self] = <<el>>]
         /\ rerendered' = {}
         /\ UNCHANGED <<anchorEl, rendered>>
    ELSE /\ anchorEl' = [anchorEl EXCEPT ![self] = el]
         /\ rendered' = [rendered EXCEPT ![self] = render(self, el)]
         /\ rerendered' = {self}
         /\ UNCHANGED pending

\* console.error(...): one more line on the console (the count saturates)
consoleError(n) == IF n < MaxConsoleErrors THEN n + 1 ELSE n

\* the condition of the if statement of handleOpen throws: the flag is unset,
\* eventOrAnchorEl is falsy, and reading eventOrAnchorEl.target throws
\* the same, as a function of the value the flag has
WarningCheckThrowsWhen(warned, eventOrAnchorEl) ==
  /\ ~warned
  /\ ~ToBoolean(eventOrAnchorEl)
  /\ IsNullish(eventOrAnchorEl)

\* the condition that never reads .target of a missing value
WarningCheckNeverThrows(eventOrAnchorEl) == FALSE

WarningCheckThrows(eventOrAnchorEl) ==
  WarningCheckThrowsWhen(eventOrAnchorElWarned, eventOrAnchorEl)

\* the condition of the if statement of handleOpen, when it does not throw
WarningCheck(eventOrAnchorEl) ==
  /\ ~eventOrAnchorElWarned
  /\ ~ToBoolean(eventOrAnchorEl)
  /\ ~ToBoolean(GetTarget(eventOrAnchorEl))

\* the anchor stored when the target of an event is not looked at
ResolvedAnchorNoTarget(eventOrAnchorEl) == eventOrAnchorEl

\* the anchor stored when .target is taken of every truthy source
ResolvedAnchorAlwaysTarget(eventOrAnchorEl) ==
  IF ToBoolean(eventOrAnchorEl)
    THEN GetTarget(eventOrAnchorEl)
    ELSE eventOrAnchorEl

\* the anchor handleOpen stores
ResolvedAnchor(eventOrAnchorEl) ==
  IF ToBoolean(eventOrAnchorEl) /\ ToBoolean(GetTarget(eventOrAnchorEl))
    THEN GetTarget(eventOrAnchorEl)
    ELSE eventOrAnchorEl

\* handleOpen that keeps the anchor of a popup that is already open
handleOpenKeepFirst(self, eventOrAnchorEl) ==
  IF WarningCheckThrows(eventOrAnchorEl)
    THEN /\ raised' = "TypeError"
         /\ rerendered' = {}
         /\ UNCHANGED <<anchorEl, pending, rendered, eventOrAnchorElWarned,
                        consoleErrors>>
    ELSE /\ IF WarningCheck(eventOrAnchorEl)
              THEN /\ eventOrAnchorElWarned' = TRUE
                   /\ consoleErrors' = consoleError(consoleErrors)
              ELSE UNCHANGED <<eventOrAnchorElWarned, consoleErrors>>
         /\ IF ToBoolean(anchorEl[self])
              THEN setState(self, anchorEl[self])
              ELSE setState(self, ResolvedAnchor(eventOrAnchorEl))
         /\ raised' = "none"

handleOpen(self, eventOrAnchorEl) ==
  IF WarningCheckThrows(eventOrAnchorEl)
    THEN /\ raised' = "TypeError"
         /\ rerendered' = {}
         /\ UNCHANGED <<anchorEl, pending, rendered, eventOrAnchorElWarned,
                        consoleErrors>>
    ELSE /\ IF WarningCheck(eventOrAnchorEl)
              THEN /\ eventOrAnchorElWarned' = TRUE
                   /\ consoleErrors' = consoleError(consoleErrors)
              ELSE UNCHANGED <<eventOrAnchorElWarned, consoleErrors>>
         /\ setState(self, ResolvedAnchor(eventOrAnchorEl))
         /\ raised' = "none"

\* handleClose that clears the anchor to undefined
handleCloseUndefined(self) ==
  /\ setState(self, Undefined)
  /\ raised' = "none"
  /\ UNCHANGED <<eventOrAnchorElWarned, consoleErrors>>

handleClose(self) ==
  /\ setState(self, Null)
  /\ raised' = "none"
  /\ UNCHANGED <<eventOrAnchorElWarned, consoleErrors>>

\* handleToggle without its close branch
handleToggleAlwaysOpen(self, eventOrAnchorEl) ==
  handleOpen(self, eventOrAnchorEl)

handleToggle(self, eventOrAnchorEl) ==
  IF ToBoolean(anchorEl[self])
    THEN handleClose(self)
    ELSE handleOpen(self, eventOrAnchorEl)

\* handleSetOpen with its branches swapped
handleSetOpenSwapped(self, open, eventOrAnchorEl) ==
  IF open
    THEN handleClose(self)
    ELSE handleOpen(self, eventOrAnchorEl)

handleSetOpen(self, open, eventOrAnchorEl) ==
  IF open
    THEN handleOpen(self, eventOrAnchorEl)
    ELSE handleClose(self)

-----------------------------------------------------------------------------
(* The bind functions: objects are functions from their keys *)

\* the key when the variant is not looked at
AriaKeyOwns(variant) == "aria-owns"

\* variant === 'popover' ? 'aria-owns' : 'aria-describedby'
AriaKey(variant) ==
  IF variant = Str("popover") THEN "aria-owns" ELSE "aria-describedby"

\* isOpen ? popupId : null
AriaValue(isOpen, popupId) == IF ToBoolean(isOpen) THEN popupId ELSE Null

bindTrigger(props) ==
  (AriaKey(props.variant) :> AriaValue(props.isOpen, props.popupId))
    @@ ("aria-haspopup" :> True)
    @@ ("onClick" :> props.open)

bindToggle(props) ==
  (AriaKey(props.variant) :> AriaValue(props.isOpen, props.popupId))
    @@ ("aria-haspopup" :> True)
    @@ ("onClick" :> props.toggle)

\* bindHover with its two handlers swapped
bindHoverSwapped(props) ==
  (AriaKey(props.variant) :> AriaValue(props.isOpen, props.popupId))
    @@ ("aria-haspopup" :> True)
    @@ ("onMouseEnter" :> props.close)
    @@ ("onMouseLeave" :> props.open)

bindHover(props) ==
  (AriaKey(props.variant) :> AriaValue(props.isOpen, props.popupId))
    @@ ("aria-haspopup" :> True)
    @@ ("onMouseEnter" :> props.open)
    @@ ("onMouseLeave" :> props.close)

\* bindPopover that tells the Popover to be open whatever isOpen is
bindPopoverAlwaysOpen(props) ==
  ("id" :> props.popupId)
    @@ ("anchorEl" :> props.anchorEl)
    @@ ("open" :> True)
    @@ ("onClose" :> props.close)

bindPopover(props) ==
  ("id" :> props.popupId)
    @@ ("anchorEl" :> props.anchorEl)
    @@ ("open" :> props.isOpen)
    @@ ("onClose" :> props.close)

\* bindPopper that passes the close handler on, as bindPopover does
bindPopperWithOnClose(props) == bindPopover(props)

bindPopper(props) ==
  ("id" :> props.popupId)
    @@ ("anchorEl" :> props.anchorEl)
    @@ ("open" :> props.isOpen)

\* bindMenu as an alias of bindPopper
bindMenuAsPopper(props) == bindPopper(props)

\* export const bindMenu = bindPopover
bindMenu(props) == bindPopover(props)

-----------------------------------------------------------------------------
(* The steps *)

Called(op, self, flag, arg) ==
  [op |-> op, self |-> self, flag |-> flag, arg |-> arg]

\* props.open(eventOrAnchorEl)
Open(self, eventOrAnchorEl) ==
  /\ handleOpen(self, eventOrAnchorEl)
  /\ call' = Called("open", self, TRUE, eventOrAnchorEl)
  /\ UNCHANGED <<batching, popupState, bound>>

\* props.close()
Close(self) ==
  /\ handleClose(self)
  /\ call' = Called("close", self, FALSE, Undefined)
  /\ UNCHANGED <<batching, popupState, bound>>

\* props.toggle(eventOrAnchorEl)
Toggle(self, eventOrAnchorEl) ==
  /\ handleToggle(self, eventOrAnchorEl)
  /\ call' = Called("toggle", self, TRUE, eventOrAnchorEl)
  /\ UNCHANGED <<batching, popupState, bound>>

\* props.setOpen(open, eventOrAnchorEl)
SetOpen(self, open, eventOrAnchorEl) ==
  /\ handleSetOpen(self, open, eventOrAnchorEl)
  /\ call' = Called("setOpen", self, open, eventOrAnchorEl)
  /\ UNCHANGED <<batching, popupState, bound>>

\* handler(event): a call of one of the bound methods of an instance
Invoke(handler, event) ==
  CASE handler.id = "handleOpen" -> handleOpen(handler.this, event)
    [] handler.id = "handleClose" -> handleClose(handler.this)
    [] handler.id = "handleToggle" -> handleToggle(handler.this, event)
    [] handler.id = "handleSetOpen" ->
         handleSetOpen(handler.this, ToBoolean(event), Undefined)

\* React calls the handler that a bind function put under key, of the props
\* self rendered last, with an event
Fire(name, key, props, self, event) ==
  /\ Invoke(props[key], event)
  /\ call' = Called(name, self, TRUE, event)
  /\ UNCHANGED <<batching, popupState, bound>>

\* {...bindTrigger(popupState)}: a click
TriggerClick(self, event) ==
  Fire("bindTrigger.onClick", "onClick", bindTrigger(rendered[self]), self, event)

\* {...bindToggle(popupState)}: a click
ToggleClick(self, event) ==
  Fire("bindToggle.onClick", "onClick", bindToggle(rendered[self]), self, event)

\* {...bindHover(popupState)}: the pointer enters
HoverEnter(self, event) ==
  Fire("bindHover.onMouseEnter", "onMouseEnter", bindHover(rendered[self]),
       self, event)

\* {...bindHover(popupState)}: the pointer leaves
HoverLeave(self, event) ==
  Fire("bindHover.onMouseLeave", "onMouseLeave", bindHover(rendered[self]),
       self, event)

\* {...bindPopover(popupState)}: the Popover asks to be closed
PopoverClose(self, event) ==
  Fire("bindPopover.onClose", "onClose", bindPopover(rendered[self]), self, event)

\* {...bindMenu(popupState)}: the Menu asks to be closed
MenuClose(self, event) ==
  Fire("bindMenu.onClose", "onClose", bindMenu(rendered[self]), self, event)

\* React starts to dispatch an event: setState calls are batched from here on
BeginEvent ==
  /\ ~batching
  /\ batching' = TRUE
  /\ call' = Called("dispatch", "none", FALSE, Undefined)
  /\ raised' = "none"
  /\ rerendered' = {}
  /\ UNCHANGED <<anchorEl, pending, rendered, eventOrAnchorElWarned,
                 consoleErrors, popupState, bound>>

\* this.state once the queued partial state is applied
StateAfterUpdate(self) ==
  IF pending[self] = <<>> THEN anchorEl[self] ELSE pending[self][1]

\* The event handler returned: React applies the queued updates and renders
EndEvent ==
  /\ batching
  /\ batching' = FALSE
  /\ anchorEl' = [self \in Instances |-> StateAfterUpdate(self)]
  /\ rendered' = [self \in Instances |->
                    IF pending[self] = <<>> THEN rendered[self]
                    ELSE render(self, StateAfterUpdate(self))]
  /\ rerendered' = {self \in Instances : pending[self] # <<>>}
  /\ pending' = [self \in Instances |-> <<>>]
  /\ call' = Called("flush", "none", FALSE, Undefined)
  /\ raised' = "none"
  /\ UNCHANGED <<eventOrAnchorElWarned, consoleErrors, popupState, bound>>

NoProps == render("menu", Null)

\* a component constructed with state = {}
InitNoAnchor ==
  /\ anchorEl = [self \in Instances |-> Undefined]
  /\ pending = [self \in Instances |-> <<>>]
  /\ batching = FALSE
  /\ eventOrAnchorElWarned = FALSE
  /\ consoleErrors = 0
  /\ rendered = [self \in Instances |-> render(self, Undefined)]
  /\ rerendered = Instances
  /\ call = Called("mount", "none", FALSE, Undefined)
  /\ raised = "none"
  /\ popupState = NoProps
  /\ bound = <<>>

Init ==
  /\ anchorEl = [self \in Instances |-> Null]
  /\ pending = [self \in Instances |-> <<>>]
  /\ batching = FALSE
  /\ eventOrAnchorElWarned = FALSE
  /\ consoleErrors = 0
  /\ rendered = [self \in Instances |-> render(self, Null)]
  /\ rerendered = Instances
  /\ call = Called("mount", "none", FALSE, Undefined)
  /\ raised = "none"
  /\ popupState = NoProps
  /\ bound = <<>>

Next ==
  \/ \E self \in Instances, a \in AnchorSources : Open(self, a)
  \/ \E self \in Instances : Close(self)
  \/ \E self \in Instances, a \in AnchorSources : Toggle(self, a)
  \/ \E self \in Instances, o \in BOOLEAN, a \in AnchorSources :
       SetOpen(self, o, a)
  \/ \E self \in Instances, e \in Events : TriggerClick(self, e)
  \/ \E self \in Instances, e \in Events : ToggleClick(self, e)
  \/ \E self \in Instances, e \in Events : HoverEnter(self, e)
  \/ \E self \in Instances, e \in Events : HoverLeave(self, e)
  \/ \E self \in Instances, e \in Events : PopoverClose(self, e)
  \/ \E self \in Instances, e \in Events : MenuClose(self, e)
  \/ BeginEvent
  \/ EndEvent

Spec == Init /\ [][Next]_vars

-----------------------------------------------------------------------------
(* The bind functions applied *)

\* the InjectedProps records the bind functions are applied to: those render
\* produces and those a caller can build by hand
InjectedProps ==
  {[open |-> Method("handleOpen", self),
    close |-> Method("handleClose", self),
    toggle |-> Method("handleToggle", self),
    setOpen |-> Method("handleSetOpen", self),
    isOpen |-> isOpen,
    anchorEl |-> el,
    popupId |-> popupId,
    variant |-> variant] :
      self \in Instances,
      isOpen \in {True, False},
      el \in {Null} \cup Elements,
      popupId \in {Undefined, Str("menu"), Str("tip")},
      variant \in {Str("popover"), Str("popper")}}

\* the result of a bind function is kept under the function's name
Bind(name, result) ==
  /\ name \notin DOMAIN bound
  /\ bound' = bound @@ (name :> result)
  /\ UNCHANGED <<ctlVars, popupState>>

BindTrigger == Bind("bindTrigger", bindTrigger(popupState))

BindToggle == Bind("bindToggle", bindToggle(popupState))

BindHover == Bind("bindHover", bindHover(popupState))

BindPopover == Bind("bindPopover", bindPopover(popupState))

BindMenu == Bind("bindMenu", bindMenu(popupState))

BindPopper == Bind("bindPopper", bindPopper(popupState))

InitBind ==
  /\ anchorEl = [self \in Instances |-> Null]
  /\ pending = [self \in Instances |-> <<>>]
  /\ batching = FALSE
  /\ eventOrAnchorElWarned = FALSE
  /\ consoleErrors = 0
  /\ rendered = [self \in Instances |-> render(self, Null)]
  /\ rerendered = Instances
  /\ call = Called("mount", "none", FALSE, Undefined)
  /\ raised = "none"
  /\ popupState \in InjectedProps
  /\ bound = <<>>

NextBind ==
  \/ BindTrigger
  \/ BindToggle
  \/ BindHover
  \/ BindPopover
  \/ BindMenu
  \/ BindPopper

SpecBind == InitBind /\ [][NextBind]_vars

-----------------------------------------------------------------------------
(* Properties of the PopupState operations *)

\* AnchorReference: the anchor the component holds once the step's update is
\* applied
AnchorReference(self) ==
  IF pending[self] # <<>> THEN pending[self][Len(pending[self])]
  ELSE anchorEl[self]

\* AnchorReference in the successor state of a step
AnchorReferenceNext(self) ==
  IF pending'[self] # <<>> THEN pending'[self][Len(pending'[self])]
  ELSE anchorEl'[self]

\* an anchor source that is an event object carrying a target element
IsEventOnElement(a) == a.type = "object" /\ a.target \in ElementIds

\* the anchor a valid anchor source stands for
AnchorOf(a) == IF IsEventOnElement(a) THEN Element(a.target) ELSE a

\* the popup of self is shown open
IsShownOpen(self) == rendered[self].isOpen = True

\* C1 as stated: the isOpen handed to the render callback is true exactly when
\* AnchorReference is non-null, and the anchorEl handed to it is AnchorReference
C1_IsOpenIffNonNull ==
  \A self \in Instances :
    /\ IsShownOpen(self) <=> anchorEl[self] # Null
    /\ rendered[self].anchorEl = anchorEl[self]

\* C1 amended: the isOpen handed to the render callback is true exactly when
\* state.anchorEl is truthy (here: an object), false for null and for the falsy
\* non-null values an invalid open stores; the anchorEl handed to it is
\* state.anchorEl
C1_IsOpenIffTruthy ==
  \A self \in Instances :
    /\ rendered[self].isOpen \in {True, False}
    /\ IsShownOpen(self) <=> anchorEl[self].type = "object"
    /\ rendered[self].anchorEl = anchorEl[self]

C1_Witness ==
  /\ call.op = "open"
  /\ call.arg = Zero
  /\ anchorEl[call.self] = Zero
  /\ rendered[call.self].isOpen = False
  /\ \E other \in Instances : IsShownOpen(other)

\* C2: after open(anchorSource), AnchorReference is the target element when
\* anchorSource is an event carrying one (and not the event), and anchorSource
\* itself when it is an element without a target
C2_OpenResolvesAnchor ==
  call.op = "open" =>
    /\ IsEventOnElement(call.arg) =>
         /\ AnchorReference(call.self) = Element(call.arg.target)
         /\ AnchorReference(call.self) # call.arg
    /\ call.arg \in Elements => AnchorReference(call.self) = call.arg

C2_Witness ==
  /\ call = Called("open", "menu", TRUE, Event("click", "E1"))
  /\ ~batching
  /\ anchorEl["menu"] = Element("E1")
  /\ IsShownOpen("menu")

\* C3: a step open(b) with a valid anchor source b, taken from any state, raises
\* nothing and leaves AnchorReference equal to the anchor of b, whatever the
\* anchor was before
C3_OpenLastWriteWins ==
  [][(call'.op = "open" /\ call'.arg.type = "object") =>
       /\ raised' = "none"
       /\ AnchorReferenceNext(call'.self) = AnchorOf(call'.arg)]_vars

C3_Witness ==
  /\ call = Called("open", "menu", TRUE, Element("E2"))
  /\ raised = "none"
  /\ batching
  /\ anchorEl["menu"] = Element("E1")
  /\ IsShownOpen("menu")
  /\ AnchorReference("menu") = Element("E2")

\* C4: a step close() raises nothing and leaves AnchorReference null from any
\* state, and a close() that follows a close() of the same component changes
\* nothing
C4_CloseIdempotent ==
  [][call'.op = "close" =>
       /\ raised' = "none"
       /\ AnchorReferenceNext(call'.self) = Null
       /\ (call.op = "close" /\ call.self = call'.self /\ raised = "none") =>
            UNCHANGED <<anchorEl, pending, rendered, batching,
                        eventOrAnchorElWarned, consoleErrors>>]_vars

C4_Witness ==
  /\ call = Called("close", "menu", FALSE, Undefined)
  /\ batching
  /\ IsShownOpen("menu")
  /\ AnchorReference("menu") = Null

\* C5: a step toggle(a) taken while the popup is closed is a step of open(a); a
\* step toggle(x) taken while it is open raises nothing and leaves
\* AnchorReference null, whatever x is
C5_Toggle ==
  [][call'.op = "toggle" =>
       IF IsShownOpen(call'.self)
         THEN /\ raised' = "none"
              /\ AnchorReferenceNext(call'.self) = Null
              /\ UNCHANGED <<eventOrAnchorElWarned, consoleErrors>>
         ELSE /\ handleOpen(call'.self, call'.arg)
              /\ call'.arg.type = "object" =>
                   AnchorReferenceNext(call'.self) = AnchorOf(call'.arg)]_vars

C5_Witness ==
  /\ call = Called("toggle", "menu", TRUE, Undefined)
  /\ raised = "none"
  /\ ~eventOrAnchorElWarned
  /\ batching
  /\ IsShownOpen("menu")
  /\ AnchorReference("menu") = Null

\* C6: a step setOpen(false, x) raises nothing and leaves AnchorReference null,
\* whatever x and the state are; a step setOpen(true, a) is a step of open(a)
C6_SetOpen ==
  [][call'.op = "setOpen" =>
       IF call'.flag
         THEN /\ handleOpen(call'.self, call'.arg)
              /\ call'.arg.type = "object" =>
                   AnchorReferenceNext(call'.self) = AnchorOf(call'.arg)
         ELSE /\ raised' = "none"
              /\ AnchorReferenceNext(call'.self) = Null
              /\ UNCHANGED <<eventOrAnchorElWarned, consoleErrors>>]_vars

C6_Witness ==
  /\ call = Called("setOpen", "tip", FALSE, Undefined)
  /\ raised = "none"
  /\ ~eventOrAnchorElWarned
  /\ batching
  /\ IsShownOpen("tip")
  /\ AnchorReference("tip") = Null

-----------------------------------------------------------------------------
(* Properties of the bind functions *)

AriaKeys == {"aria-owns", "aria-describedby"}

\* C7: the results of bindTrigger, bindToggle and bindHover hold exactly one of
\* the keys aria-owns and aria-describedby: aria-owns for the variant popover,
\* aria-describedby for popper; its value is popupId when isOpen and null
\* otherwise, the key being there in both cases
C7_ExactlyOneAriaKey ==
  \A name \in DOMAIN bound \cap {"bindTrigger", "bindToggle", "bindHover"} :
    LET result == bound[name]
        key == IF popupState.variant = Str("popover") THEN "aria-owns"
               ELSE "aria-describedby"
    IN /\ DOMAIN result \cap AriaKeys = {key}
       /\ result[key] = IF popupState.isOpen = True THEN popupState.popupId
                        ELSE Null

C7_Witness ==
  /\ {"bindTrigger", "bindToggle", "bindHover"} \subseteq DOMAIN bound
  /\ popupState.variant = Str("popper")
  /\ popupState.isOpen = False
  /\ popupState.popupId = Str("tip")
  /\ bound["bindHover"]["aria-describedby"] = Null
  /\ "aria-owns" \notin DOMAIN bound["bindHover"]

\* C8: bindPopover returns {id: popupId, anchorEl, open: isOpen, onClose: close},
\* and bindMenu applied to the same props returns the same result
C8_PopoverAndMenu ==
  /\ \A name \in DOMAIN bound \cap {"bindPopover", "bindMenu"} :
       /\ DOMAIN bound[name] = {"id", "anchorEl", "open", "onClose"}
       /\ bound[name]["id"] = popupState.popupId
       /\ bound[name]["anchorEl"] = popupState.anchorEl
       /\ bound[name]["open"] = popupState.isOpen
       /\ bound[name]["onClose"] = popupState.close
  /\ {"bindPopover", "bindMenu"} \subseteq DOMAIN bound =>
       bound["bindMenu"] = bound["bindPopover"]

C8_Witness ==
  /\ {"bindPopover", "bindMenu"} \subseteq DOMAIN bound
  /\ popupState.isOpen = True
  /\ popupState.anchorEl = Element("E1")
  /\ bound["bindMenu"]["onClose"] = Method("handleClose", "menu")

\* C9: bindPopper returns exactly the keys id, anchorEl and open, holding
\* popupId, anchorEl and isOpen, and no onClose key, open or closed
C9_PopperHasNoOnClose ==
  "bindPopper" \in DOMAIN bound =>
    /\ DOMAIN bound["bindPopper"] = {"id", "anchorEl", "open"}
    /\ "onClose" \notin DOMAIN bound["bindPopper"]
    /\ bound["bindPopper"]["id"] = popupState.popupId
    /\ bound["bindPopper"]["anchorEl"] = popupState.anchorEl
    /\ bound["bindPopper"]["open"] = popupState.isOpen

C9_Witness ==
  /\ "bindPopper" \in DOMAIN bound
  /\ popupState.isOpen = False
  /\ popupState.anchorEl = Null
  /\ popupState.popupId = Str("menu")
  /\ bound["bindPopper"]["open"] = False

-----------------------------------------------------------------------------
(* The missing-anchor diagnostic *)

\* a step that runs handleOpen: open, setOpen(true, ...), toggle while closed
IsOpeningStep ==
  \/ call'.op = "open"
  \/ call'.op = "setOpen" /\ call'.flag
  \/ call'.op = "toggle" /\ ~IsShownOpen(call'.self)

\* C10: the diagnostic is emitted exactly once, on the first opening call whose
\* anchor source is falsy: after every such call exactly one diagnostic has
\* been emitted so far
C10_DiagnosticOnFirstInvalidCall ==
  [][(IsOpeningStep /\ ~ToBoolean(call'.arg)) => consoleErrors' = 1]_vars


\* an anchor source that is falsy or an event without a usable target
IsInvalidSource(a) == ~ToBoolean(a) \/ (a \notin Elements /\ ~IsEventOnElement(a))

\* C11: an opening call with an invalid anchor source never raises, and the
\* state update proceeds: AnchorReference becomes the source as it is
C11_InvalidOpenNeverFails ==
  [][(IsOpeningStep /\ IsInvalidSource(call'.arg)) =>
       /\ raised' = "none"
       /\ AnchorReferenceNext(call'.self) = call'.arg]_vars

\* C12: the warning flag never influences control flow: an opening step has the
\* outcome (raises or completes) it would have had from the same state with
\* the other value of the flag, and when it completes it leaves the anchor the
\* source resolves to
C12_FlagNeverDecidesOutcome ==
  [][IsOpeningStep =>
       /\ (raised' = "TypeError") =
            WarningCheckThrowsWhen(~eventOrAnchorElWarned, call'.arg)
       /\ raised' = "none" =>
            AnchorReferenceNext(call'.self) = ResolvedAnchor(call'.arg)]_vars

\* C19: while the flag is unset, an opening call whose anchor source is null or
\* undefined raises a TypeError and changes neither the state, nor the queued
\* update, nor the flag, and emits no diagnostic
C19_NullishOpenRaisesFirst ==
  [][(IsOpeningStep /\ ~eventOrAnchorElWarned /\ IsNullish(call'.arg)) =>
       /\ raised' = "TypeError"
       /\ UNCHANGED <<anchorEl, pending, rendered, eventOrAnchorElWarned,
                      consoleErrors>>]_vars

C19_Witness ==
  /\ call = Called("toggle", "tip", TRUE, Null)
  /\ raised = "TypeError"
  /\ ~eventOrAnchorElWarned
  /\ consoleErrors = 0
  /\ anchorEl["tip"] = Null
  /\ IsShownOpen("menu")

-----------------------------------------------------------------------------
(* Instances and the order of calls *)

\* the operations called on a component directly
Operations == {"open", "close", "toggle", "setOpen"}

\* C13: an operation on one component (called directly or through a handler of
\* a bind function) leaves the state, the queued update and
\* the rendered props of every other component unchanged
C13_InstancesIndependent ==
  [][\A self \in Instances :
       (call'.self \in Instances /\ call'.self # self) =>
         /\ anchorEl'[self] = anchorEl[self]
         /\ pending'[self] = pending[self]
         /\ rendered'[self] = rendered[self]]_vars

C13_Witness ==
  /\ call = Called("open", "menu", TRUE, Element("E1"))
  /\ anchorEl["menu"] = Element("E1")
  /\ anchorEl["tip"] = Element("E2")
  /\ IsShownOpen("tip")
  /\ rendered["tip"].anchorEl = Element("E2")

\* C14: toggle decides on the AnchorReference left by the call before it, also
\* when no render happened in between: it closes when that anchor is present
\* and opens on its own anchor source when it is absent
C14_ToggleSeesPrecedingCall ==
  [][call'.op = "toggle" =>
       IF ToBoolean(AnchorReference(call'.self))
         THEN /\ raised' = "none"
              /\ AnchorReferenceNext(call'.self) = Null
         ELSE call'.arg.type = "object" =>
                AnchorReferenceNext(call'.self) = AnchorOf(call'.arg)]_vars

-----------------------------------------------------------------------------
(* Renders *)

\* the last step rendered self with the state the step left
RenderedNow(self) ==
  /\ self \in rerendered
  /\ rendered[self].anchorEl = anchorEl[self]
  /\ rendered[self].isOpen = Boolean(anchorEl[self])

\* a render of self is due: an update is queued that the end of the event
\* applies and renders
RenderDue(self) == batching /\ pending[self] # <<>>

\* C15: every call of open, close, toggle or setOpen is followed by a re-render
\* with the state the call left, also when it changed nothing: render ran in
\* the step of the call, or the call left an update queued whose render is due
C15_EveryCallRenders ==
  call.op \in Operations => RenderedNow(call.self) \/ RenderDue(call.self)

\* the calls that complete are rendered or have their render due
CompletedCallRenders ==
  (call.op \in Operations /\ raised = "none") =>
    RenderedNow(call.self) \/ RenderDue(call.self)

-----------------------------------------------------------------------------
(* Creation, and the handlers of the bind functions *)

\* a step that calls open, toggle or setOpen(true, ...) on self, directly or
\* through a handler that a bind function handed out
IsOpeningCallOn(self) ==
  /\ call'.self = self
  /\ \/ call'.op \in {"open", "toggle"}
     \/ call'.op = "setOpen" /\ call'.flag
     \/ call'.op \in {"bindTrigger.onClick", "bindToggle.onClick",
                      "bindHover.onMouseEnter"}

\* C16: a component just created holds a null anchor and its first render
\* hands over isOpen = false and anchorEl = null; an absent anchor becomes
\* present, and a closed popup is shown open, only through a call of open,
\* toggle or setOpen(true, ...) on that component
C16_StartsClosed ==
  [][/\ call.op = "mount" =>
          \A self \in Instances :
            /\ anchorEl[self] = Null
            /\ self \in rerendered
            /\ rendered[self].isOpen = False
            /\ rendered[self].anchorEl = Null
     /\ \A self \in Instances :
          /\ (~ToBoolean(AnchorReference(self))
                /\ ToBoolean(AnchorReferenceNext(self))) => IsOpeningCallOn(self)
          /\ (~IsShownOpen(self) /\ rendered'[self].isOpen = True) =>
               \/ IsOpeningCallOn(self)
               \/ ToBoolean(AnchorReference(self))]_vars

C16_Witness ==
  /\ call = Called("setOpen", "menu", TRUE, Element("E1"))
  /\ IsShownOpen("menu")
  /\ anchorEl["tip"] = Null
  /\ rendered["tip"].isOpen = False
  /\ rendered["tip"].anchorEl = Null
  /\ ~batching

\* C17: the handlers in the results of the bind functions are the operations
\* of the component: bindTrigger.onClick(event) is a step of open(event) and,
\* applied at once, leaves the popup open on event.target; bindToggle.onClick
\* is a step of toggle(event); bindHover.onMouseEnter is a step of open(event);
\* bindHover.onMouseLeave and the onClose of bindPopover and bindMenu are steps
\* of close() and leave the anchor null
C17_HandlersDriveTheState ==
  [][/\ call'.op \in {"bindTrigger.onClick", "bindHover.onMouseEnter"} =>
          /\ handleOpen(call'.self, call'.arg)
          /\ raised' = "none"
          /\ (IsEventOnElement(call'.arg) /\ ~batching) =>
               /\ anchorEl'[call'.self] = Element(call'.arg.target)
               /\ rendered'[call'.self].isOpen = True
     /\ call'.op = "bindToggle.onClick" =>
          handleToggle(call'.self, call'.arg)
     /\ call'.op \in {"bindHover.onMouseLeave", "bindPopover.onClose",
                      "bindMenu.onClose"} =>
          /\ handleClose(call'.self)
          /\ AnchorReferenceNext(call'.self) = Null
          /\ ~batching => rendered'[call'.self].isOpen = False]_vars

C17_Witness ==
  /\ call = Called("bindHover.onMouseLeave", "menu", TRUE, Event("click", "E1"))
  /\ batching
  /\ IsShownOpen("menu")
  /\ anchorEl["menu"] = Element("E1")
  /\ AnchorReference("menu") = Null

-----------------------------------------------------------------------------
(* The props of the popup surface, and open with any source *)

\* the props the three surface bind functions derive from what self rendered
SurfaceProps(self) ==
  {bindPopover(rendered[self]), bindMenu(rendered[self]),
   bindPopper(rendered[self])}

\* C18 as stated: the surface props never say open without an anchor: open =
\* true implies anchorEl is not null, and open = false implies anchorEl is null
C18_OpenIffAnchorNonNull ==
  \A self \in Instances :
    \A props \in SurfaceProps(self) :
      /\ props["open"] = True => props["anchorEl"] # Null
      /\ props["open"] = False => props["anchorEl"] = Null

\* C18 amended: open = true implies anchorEl is an object (so not null); open =
\* false implies anchorEl is falsy: null, or the falsy value an invalid open
\* stored (0, undefined)
C18_OpenIffAnchorTruthy ==
  \A self \in Instances :
    \A props \in SurfaceProps(self) :
      /\ props["open"] \in {True, False}
      /\ props["open"] = True =>
           /\ props["anchorEl"] # Null
           /\ props["anchorEl"].type = "object"
      /\ props["open"] = False =>
           props["anchorEl"].type \in {"null", "undefined", "number"}

C18_Witness ==
  /\ bindPopper(rendered["menu"])["open"] = True
  /\ bindPopper(rendered["menu"])["anchorEl"] = Element("E1")
  /\ bindPopover(rendered["tip"])["open"] = False
  /\ bindPopover(rendered["tip"])["anchorEl"] = Zero
  /\ call.op = "open"

\* C20 as stated: open(src) with any src that is not null or undefined raises
\* nothing and leaves the popup open
C20_NonNullOpenLeavesOpen ==
  (call.op = "open" /\ ~IsNullish(call.arg)) =>
    /\ raised = "none"
    /\ ToBoolean(AnchorReference(call.self))
    /\ ~batching => IsShownOpen(call.self)

\* C20 amended: open(src) with any truthy src (an object) raises nothing and
\* leaves the popup open: the anchor becomes src.target when that is truthy and
\* src itself otherwise, so an event whose target is missing or null becomes
\* the anchor, and no diagnostic is emitted and the flag is left alone
C20_TruthyOpenLeavesOpen ==
  [][(call'.op = "open" /\ call'.arg.type = "object") =>
       /\ raised' = "none"
       /\ AnchorReferenceNext(call'.self) =
            IF call'.arg.target \in {"absent", "null"} THEN call'.arg
            ELSE Element(call'.arg.target)
       /\ AnchorReferenceNext(call'.self).type = "object"
       /\ ~batching => rendered'[call'.self].isOpen = True
       /\ UNCHANGED <<eventOrAnchorElWarned, consoleErrors>>]_vars

C20_Witness ==
  /\ call = Called("open", "tip", TRUE, Event("submit", "null"))
  /\ ~batching
  /\ anchorEl["tip"] = Event("submit", "null")
  /\ IsShownOpen("tip")
  /\ consoleErrors = 0
  /\ ~eventOrAnchorElWarned

====
